---- MODULE Spec2Model ----
(***************************************************************************)
(* A model of package stream (src/stream/stream.go): an eagerly evaluated  *)
(* stream[T] wrapping a Go slice.  A slice is a reference to a backing     *)
(* array, so the model keeps a heap of backing arrays and a stream holds   *)
(* the address of its array (Nil for the zero-valued stream).              *)
(***************************************************************************)
EXTENDS Integers, Sequences, FiniteSets, TLC

\* ---------------------------------------------------------------- bounds
MaxLen == 3      \* longest receiver stream explored
MaxElem == 2     \* elements are 0..MaxElem
MaxArgLen == 1   \* longest second stream (the other argument of Concat)
NumAddr == 4     \* backing arrays alive at once (receiver, argument, result, scratch)
MaxCap == 2      \* largest channel buffer explored (0 is an unbuffered channel)

\* ------------------------------------------------------- the Go target
\* A 32-bit target (GOARCH=386, arm), 4-byte elements: int is 32 bits wide and
\* the runtime refuses a make() of more than maxAlloc = 2^32 - 1 bytes.  (On a
\* 64-bit target the same holds with 2^63 - 1 and 2^48 bytes.)
MaxInt == 2147483647         \* math.MaxInt, the largest maxSize a caller can pass
MaxAlloc == 1073741823       \* elements one make() may reserve: maxAlloc / 4

Elem == 0 .. MaxElem
Addr == 1 .. NumAddr
Nil == 0                 \* the nil slice: no backing array
ZeroValue == 0           \* var x T

VARIABLES
    heap,    \* backing arrays: a function from the allocated addresses to sequences
    s,       \* the receiver stream, [source |-> address or Nil]
    t,       \* a second stream, handed to Concat
    r,       \* the stream returned by the last call (source Nil when it returned none)
    orig,    \* history: the elements of s and of t when they were constructed
    call,    \* the last call made: operation and arguments
    out,     \* what the last call returned
    wrote,   \* history: the caller has stored through the slice of r.ToSlice()
    ch,      \* the channel handed to FromChannel: buffer, capacity, closed
    prod,    \* the producer goroutine: history of the values it has sent
    fc,      \* the frame of a FromChannel call: its local slice and position
    gen,     \* the pull function handed to Generate: what it will yield, what it has
    gf       \* the frame of a Generate call: its locals and position

procs == <<ch, prod, fc, gen, gf>>

vars == <<heap, s, t, r, orig, call, out, wrote, ch, prod, fc, gen, gf>>

\* ------------------------------------------------------------ the heap
Least(S) == CHOOSE x \in S : \A y \in S : x <= y

\* type stream[T any] struct { source []T }
stream(p) == [source |-> p]

\* FromSlice wraps the slice it is given: no copy.
FromSlice(p) == stream(p)

\* the elements a stream's slice refers to (ranging over a nil slice visits nothing)
Src(h, st) == IF st.source = Nil THEN <<>> ELSE h[st.source]

\* make([]T, ...) / []T{} / the array append grows into: a backing array at an
\* address no live slice refers to
Make(h, data) ==
    LET a == Least(Addr \ DOMAIN h)
    IN  [h |-> [x \in DOMAIN h \cup {a} |-> IF x = a THEN data ELSE h[x]], p |-> a]

\* arrays no stream refers to any more are collected
Collect(h, roots) == [x \in DOMAIN h \cap roots |-> h[x]]

\* ------------------------------------------------------- call outcomes
NoStream == stream(Nil)

RetStream(h, st, calls) ==
    [h |-> h, kind |-> "stream", st |-> st, val |-> 0, found |-> FALSE,
     b |-> FALSE, calls |-> calls]

RetValue(h, val, found, calls) ==
    [h |-> h, kind |-> "value", st |-> NoStream, val |-> val, found |-> found,
     b |-> FALSE, calls |-> calls]

RetBool(h, b, calls) ==
    [h |-> h, kind |-> "bool", st |-> NoStream, val |-> 0, found |-> FALSE,
     b |-> b, calls |-> calls]

RetVoid(h, calls) ==
    [h |-> h, kind |-> "void", st |-> NoStream, val |-> 0, found |-> FALSE,
     b |-> FALSE, calls |-> calls]

\* a run-time panic: the call returns nothing
Panic(h) ==
    [h |-> h, kind |-> "panic", st |-> NoStream, val |-> 0, found |-> FALSE,
     b |-> FALSE, calls |-> 0]

\* ------------------------------------------------------ callbacks drawn
Preds == SUBSET Elem                       \* predicate(item) is item \in P
Mappers == {"id", "inc", "zero"}
Lesses == {"lt", "gt", "half"}      \* "half" orders by v / 2: 0 and 1 tie

predicate(P, v) == v \in P

mapper(f, v) ==
    CASE f = "id" -> v
      [] f = "inc" -> (v + 1) % (MaxElem + 1)
      [] OTHER -> 0

less(c, a, b) ==
    CASE c = "lt" -> a < b
      [] c = "gt" -> a > b
      [] OTHER -> (a \div 2) < (b \div 2)

accumulator(a, b) == a + b

\* ------------------------------------------------------------ Skip
\* for i := n; i < l; i++ { source = append(source, s.source[i]) }
RECURSIVE SkipLoopShifted(_, _, _)
SkipLoopShifted(src, i, acc) ==
    IF i < Len(src) THEN SkipLoopShifted(src, i + 1, Append(acc, src[i])) ELSE acc

RECURSIVE SkipLoop(_, _, _)
SkipLoop(src, i, acc) ==
    IF i < Len(src) THEN SkipLoop(src, i + 1, Append(acc, src[i + 1])) ELSE acc

Skip(h, st, n) ==
    IF n <= 0 THEN RetStream(h, st, 0)
    ELSE LET src == Src(h, st)
             l == Len(src)
         IN  IF n > l
             THEN LET m == Make(h, <<>>) IN RetStream(m.h, FromSlice(m.p), 0)
             ELSE LET m == Make(h, SkipLoop(src, n, <<>>))
                  IN  RetStream(m.h, FromSlice(m.p), 0)

\* ------------------------------------------------------------ Limit
\* for i := 0; i < len(s.source) && i < maxSize; i++ { append(source, s.source[i]) }
RECURSIVE LimitLoop(_, _, _, _)
LimitLoop(src, maxSize, i, acc) ==
    IF i < Len(src) /\ i < maxSize
    THEN LimitLoop(src, maxSize, i + 1, Append(acc, src[i + 1]))
    ELSE acc

Limit(h, st, maxSize) ==
    IF st.source = Nil THEN RetStream(h, st, 0)
    ELSE IF maxSize < 0
         THEN LET m == Make(h, <<>>) IN RetStream(m.h, FromSlice(m.p), 0)
         ELSE IF maxSize > MaxAlloc
              THEN Panic(h)     \* make([]T, 0, maxSize): makeslice: cap out of range
              ELSE LET m == Make(h, LimitLoop(Src(h, st), maxSize, 0, <<>>))
                   IN  RetStream(m.h, FromSlice(m.p), 0)

\* ------------------------------------------------------------ Distinct
\* gob's encoding of a signed integer: the magnitude shifted left one bit, the
\* low bit set and the rest complemented for a negative value
gobInt(v) == IF v < 0 THEN 2 * (-v - 1) + 1 ELSE 2 * v

\* hashKey: the bytes gob writes for an int: message length, type id 2 (int),
\* the zero delta of a top-level non-struct value, the value
hashKey(v) == <<3, gobInt(2), 0, gobInt(v)>>

RECURSIVE DistinctLoopNoMark(_, _, _, _)
DistinctLoopNoMark(src, i, distinct, acc) ==
    IF i > Len(src) THEN acc
    ELSE LET k == hashKey(src[i])
         IN  IF k \notin distinct
             THEN DistinctLoopNoMark(src, i + 1, distinct, Append(acc, src[i]))
             ELSE DistinctLoopNoMark(src, i + 1, distinct, acc)

RECURSIVE DistinctLoop(_, _, _, _)
DistinctLoop(src, i, distinct, acc) ==
    IF i > Len(src) THEN acc
    ELSE LET k == hashKey(src[i])
         IN  IF k \notin distinct
             THEN DistinctLoop(src, i + 1, distinct \cup {k}, Append(acc, src[i]))
             ELSE DistinctLoop(src, i + 1, distinct, acc)

Distinct(h, st) ==
    LET m == Make(h, DistinctLoop(Src(h, st), 1, {}, <<>>))
    IN  RetStream(m.h, FromSlice(m.p), 0)

\* ------------------------------------------------------------ Filter
RECURSIVE FilterLoopNegated(_, _, _, _)
FilterLoopNegated(src, P, i, acc) ==
    IF i > Len(src) THEN acc
    ELSE IF ~predicate(P, src[i])
         THEN FilterLoopNegated(src, P, i + 1, Append(acc, src[i]))
         ELSE FilterLoopNegated(src, P, i + 1, acc)

RECURSIVE FilterLoop(_, _, _, _)
FilterLoop(src, P, i, acc) ==
    IF i > Len(src) THEN acc
    ELSE IF predicate(P, src[i])
         THEN FilterLoop(src, P, i + 1, Append(acc, src[i]))
         ELSE FilterLoop(src, P, i + 1, acc)

Filter(h, st, P) ==
    LET m == Make(h, FilterLoop(Src(h, st), P, 1, <<>>))
    IN  RetStream(m.h, FromSlice(m.p), Len(Src(h, st)))

\* ------------------------------------------------------------ Count, Map, Peek
Count(h, st) == RetValue(h, Len(Src(h, st)), FALSE, 0)

Map(h, st, f) ==
    LET src == Src(h, st)
        m == Make(h, [i \in 1 .. Count(h, st).val |-> mapper(f, src[i])])
    IN  RetStream(m.h, FromSlice(m.p), Len(src))

Peek(h, st) == RetStream(h, st, Len(Src(h, st)))

\* ------------------------------------------------------------ Reverse
ReverseNoFlip(h, st) ==
    LET src == Src(h, st)
        l == Len(src)
        m == Make(h, [i \in 1 .. l |-> src[i]])
    IN  RetStream(m.h, FromSlice(m.p), 0)

Reverse(h, st) ==
    LET src == Src(h, st)
        l == Len(src)
        m == Make(h, [i \in 1 .. l |-> src[l - i + 1]])
    IN  RetStream(m.h, FromSlice(m.p), 0)

\* ------------------------------------------------------------ Range
\* for i := start; i < end; i++ { append(source, s.source[i]) }; an index outside
\* the slice is a run-time panic
RECURSIVE RangeLoop(_, _, _, _)
RangeLoop(src, i, end, acc) ==
    IF i >= end THEN [ok |-> TRUE, data |-> acc]
    ELSE IF i >= Len(src) THEN [ok |-> FALSE, data |-> acc]
         ELSE RangeLoop(src, i + 1, end, Append(acc, src[i + 1]))

RangeNoClamp(h, st, start0, end0) ==
    LET start == IF start0 < 0 THEN 0 ELSE start0
        end1 == IF end0 < 0 THEN 0 ELSE end0
    IN  IF start >= end1
        THEN LET m == Make(h, <<>>) IN RetStream(m.h, FromSlice(m.p), 0)
        ELSE LET res == RangeLoop(Src(h, st), start, end1, <<>>)
             IN  IF res.ok
                 THEN LET m == Make(h, res.data) IN RetStream(m.h, FromSlice(m.p), 0)
                 ELSE Panic(h)

Range(h, st, start0, end0) ==
    LET start == IF start0 < 0 THEN 0 ELSE start0
        end1 == IF end0 < 0 THEN 0 ELSE end0
    IN  IF start >= end1
        THEN LET m == Make(h, <<>>) IN RetStream(m.h, FromSlice(m.p), 0)
        ELSE LET src == Src(h, st)
                 end == IF end1 > Len(src) THEN Len(src) ELSE end1
                 res == RangeLoop(src, start, end, <<>>)
             IN  IF res.ok
                 THEN LET m == Make(h, res.data) IN RetStream(m.h, FromSlice(m.p), 0)
                 ELSE Panic(h)

\* ------------------------------------------------------------ Sorted
\* slice.SortBy(source, less) sorts the slice it is given in place
RECURSIVE Insert(_, _, _)
Insert(sorted, v, c) ==
    IF sorted = <<>> THEN <<v>>
    ELSE IF less(c, v, Head(sorted)) THEN <<v>> \o sorted
         ELSE <<Head(sorted)>> \o Insert(Tail(sorted), v, c)

RECURSIVE SortBy(_, _)
SortBy(data, c) ==
    IF data = <<>> THEN <<>>
    ELSE Insert(SortBy(SubSeq(data, 1, Len(data) - 1), c), data[Len(data)], c)

SortedInPlace(h, st, c) ==
    IF st.source = Nil
    THEN LET m == Make(h, <<>>) IN RetStream(m.h, FromSlice(m.p), 0)
    ELSE RetStream([h EXCEPT ![st.source] = SortBy(h[st.source], c)], FromSlice(st.source), 0)

Sorted(h, st, c) ==
    LET m == Make(h, Src(h, st))          \* source := append([]T{}, s.source...)
    IN  RetStream([m.h EXCEPT ![m.p] = SortBy(m.h[m.p], c)], FromSlice(m.p), 0)

\* ------------------------------------------------------------ Concat
Concat(h, a, b) ==
    LET m == Make(h, Src(h, a) \o Src(h, b))
    IN  RetStream(m.h, FromSlice(m.p), 0)

\* ------------------------------------------------------------ AllMatch, AnyMatch, NoneMatch
\* the loops return at the first determining element; calls counts the predicate's runs
AllMatchLoopNoReturn(src, P, i) ==
    [b |-> \A j \in 1 .. Len(src) : predicate(P, src[j]), calls |-> Len(src)]

RECURSIVE AllMatchLoop(_, _, _)
AllMatchLoop(src, P, i) ==
    IF i > Len(src) THEN [b |-> TRUE, calls |-> Len(src)]
    ELSE IF ~predicate(P, src[i]) THEN [b |-> FALSE, calls |-> i]
         ELSE AllMatchLoop(src, P, i + 1)

AllMatch(h, st, P) ==
    LET res == AllMatchLoop(Src(h, st), P, 1) IN RetBool(h, res.b, res.calls)

RECURSIVE AnyMatchLoop(_, _, _)
AnyMatchLoop(src, P, i) ==
    IF i > Len(src) THEN [b |-> FALSE, calls |-> Len(src)]
    ELSE IF predicate(P, src[i]) THEN [b |-> TRUE, calls |-> i]
         ELSE AnyMatchLoop(src, P, i + 1)

AnyMatch(h, st, P) ==
    LET res == AnyMatchLoop(Src(h, st), P, 1) IN RetBool(h, res.b, res.calls)

NoneMatch(h, st, P) ==
    LET any == AnyMatch(h, st, P) IN RetBool(h, ~any.b, any.calls)

\* ------------------------------------------------------------ ForEach, Reduce
ForEach(h, st) == RetVoid(h, Len(Src(h, st)))

RECURSIVE ReduceLoop(_, _, _)
ReduceLoop(src, i, initial) ==
    IF i > Len(src) THEN initial
    ELSE ReduceLoop(src, i + 1, accumulator(initial, src[i]))

Reduce(h, st, initial) ==
    RetValue(h, ReduceLoop(Src(h, st), 1, initial), FALSE, Len(Src(h, st)))

\* ------------------------------------------------------------ FindFirst, FindLast
\* s.source[i] on a slice of length <= i is a run-time panic
FindFirstNilOnly(h, st) ==
    LET src == Src(h, st)
    IN  IF st.source = Nil THEN RetValue(h, ZeroValue, FALSE, 0)
        ELSE IF Len(src) = 0 THEN Panic(h)
             ELSE RetValue(h, src[1], TRUE, 0)

FindFirst(h, st) ==
    LET src == Src(h, st)
    IN  IF st.source = Nil \/ Len(src) = 0 THEN RetValue(h, ZeroValue, FALSE, 0)
        ELSE RetValue(h, src[1], TRUE, 0)

FindLast(h, st) ==
    LET src == Src(h, st)
    IN  IF st.source = Nil \/ Len(src) = 0 THEN RetValue(h, ZeroValue, FALSE, 0)
        ELSE RetValue(h, src[Len(src)], TRUE, 0)

\* ------------------------------------------------------------ Max, Min
\* for i, v := range s.source { if less(v, max) || i == 0 { max = v } }
RECURSIVE MaxLoopTies(_, _, _, _)
MaxLoopTies(src, c, i, max) ==
    IF i > Len(src) THEN max
    ELSE IF ~less(c, max, src[i]) \/ i = 1
         THEN MaxLoopTies(src, c, i + 1, src[i])
         ELSE MaxLoopTies(src, c, i + 1, max)

RECURSIVE MaxLoop(_, _, _, _)
MaxLoop(src, c, i, max) ==
    IF i > Len(src) THEN max
    ELSE IF less(c, src[i], max) \/ i = 1
         THEN MaxLoop(src, c, i + 1, src[i])
         ELSE MaxLoop(src, c, i + 1, max)

Max(h, st, c) ==
    LET src == Src(h, st)
    IN  IF Len(src) = 0 THEN RetValue(h, ZeroValue, FALSE, 0)
        ELSE RetValue(h, MaxLoop(src, c, 1, ZeroValue), TRUE, Len(src))

RECURSIVE MinLoopSwapped(_, _, _, _)
MinLoopSwapped(src, c, i, min) ==
    IF i > Len(src) THEN min
    ELSE IF less(c, min, src[i]) \/ i = 1
         THEN MinLoopSwapped(src, c, i + 1, src[i])
         ELSE MinLoopSwapped(src, c, i + 1, min)

RECURSIVE MinLoop(_, _, _, _)
MinLoop(src, c, i, min) ==
    IF i > Len(src) THEN min
    ELSE IF less(c, src[i], min) \/ i = 1
         THEN MinLoop(src, c, i + 1, src[i])
         ELSE MinLoop(src, c, i + 1, min)

Min(h, st, c) ==
    LET src == Src(h, st)
    IN  IF Len(src) = 0 THEN RetValue(h, ZeroValue, FALSE, 0)
        ELSE RetValue(h, MinLoop(src, c, 1, ZeroValue), TRUE, Len(src))

\* ------------------------------------------------------------ ToSlice
\* returns the backing slice itself: out.st carries the slice returned
ToSlice(h, st) ==
    [h |-> h, kind |-> "slice", st |-> stream(st.source), val |-> 0, found |-> FALSE,
     b |-> FALSE, calls |-> 0]

\* ------------------------------------------------------------ the calls
ChainOps == {"Distinct", "Filter", "Map", "Peek", "Skip", "Limit", "Reverse", "Range", "Sorted"}
TerminalOps == {"AllMatch", "AnyMatch", "NoneMatch", "ForEach", "Reduce", "Count",
                "FindFirst", "FindLast", "Max", "Min", "ToSlice"}
ConcatOps == {"ConcatST", "ConcatTS", "ConcatSS"}

\* a call: the operation and its arguments (those it does not take stay at their defaults)
NoCall == [op |-> "none", n |-> 0, m |-> 0, k |-> 0, P |-> {}, f |-> "id", c |-> "lt"]
CallOf(op) == [NoCall EXCEPT !.op = op]

\* the call c made on receiver st, with tt the other stream at hand
Invoke(h, st, tt, c) ==
    CASE c.op = "Distinct" -> Distinct(h, st)
      [] c.op = "Filter" -> Filter(h, st, c.P)
      [] c.op = "Map" -> Map(h, st, c.f)
      [] c.op = "Peek" -> Peek(h, st)
      [] c.op = "Skip" -> Skip(h, st, c.n)
      [] c.op = "Limit" -> Limit(h, st, c.n)
      [] c.op = "Reverse" -> Reverse(h, st)
      [] c.op = "Range" -> Range(h, st, c.n, c.m)
      [] c.op = "Sorted" -> Sorted(h, st, c.c)
      [] c.op = "AllMatch" -> AllMatch(h, st, c.P)
      [] c.op = "AnyMatch" -> AnyMatch(h, st, c.P)
      [] c.op = "NoneMatch" -> NoneMatch(h, st, c.P)
      [] c.op = "ForEach" -> ForEach(h, st)
      [] c.op = "Reduce" -> Reduce(h, st, c.n)
      [] c.op = "Count" -> Count(h, st)
      [] c.op = "FindFirst" -> FindFirst(h, st)
      [] c.op = "FindLast" -> FindLast(h, st)
      [] c.op = "Max" -> Max(h, st, c.c)
      [] c.op = "Min" -> Min(h, st, c.c)
      [] c.op = "ToSlice" -> ToSlice(h, st)
      [] c.op = "ConcatST" -> Concat(h, st, tt)
      [] c.op = "ConcatTS" -> Concat(h, tt, st)
      [] c.op = "ConcatSS" -> Concat(h, st, st)

\* what the caller sees of an outcome: everything but the heap
Seen(o) == [kind |-> o.kind, val |-> o.val, found |-> o.found, b |-> o.b, calls |-> o.calls]

\* ------------------------------------------------------------ construction
Seqs(n) == UNION {[1 .. k -> Elem] : k \in 0 .. n}

\* the slices a caller may hand to FromSlice / Of: nil, or an allocated one
Slices(n) == {[nil |-> TRUE, data |-> <<>>]} \cup {[nil |-> FALSE, data |-> q] : q \in Seqs(n)}

\* s := FromSlice(a), t := FromSlice(b)
Start(a, b) ==
    LET ma == IF a.nil THEN [h |-> <<>>, p |-> Nil] ELSE Make(<<>>, a.data)
        mb == IF b.nil THEN [h |-> ma.h, p |-> Nil] ELSE Make(ma.h, b.data)
    IN  /\ heap = mb.h
        /\ s = FromSlice(ma.p)
        /\ t = FromSlice(mb.p)
        /\ r = NoStream
        /\ orig = [s |-> a.data, t |-> b.data]
        /\ call = NoCall
        /\ out = Seen(RetVoid(<<>>, 0))
        /\ wrote = FALSE

\* no FromChannel and no Generate call is under way
NoChannel == [buf |-> <<>>, cap |-> 0, closed |-> FALSE]
NoProducer == [sent |-> <<>>]
NoFromChannel == [pc |-> "idle", s |-> <<>>, got |-> <<>>]
NoGenerator == [left |-> <<>>, endless |-> FALSE, made |-> 0, yields |-> <<>>]
NoGenerate == [pc |-> "idle", source |-> <<>>, item |-> ZeroValue, ok |-> TRUE]

NoProcs ==
    /\ ch = NoChannel
    /\ prod = NoProducer
    /\ fc = NoFromChannel
    /\ gen = NoGenerator
    /\ gf = NoGenerate

Init ==
    /\ \E a \in Slices(MaxLen), b \in Slices(MaxArgLen) : Start(a, b)
    /\ NoProcs

\* ------------------------------------------------------------ actions
\* no result is at hand: the caller is between two calls
Ready == ~wrote /\ call.op = "none"

\* the caller makes call c on s and keeps what it returns in r
Step(c) ==
    LET o == Invoke(heap, s, t, c)
    IN  /\ heap' = Collect(o.h, {s.source, t.source, o.st.source})
        /\ r' = o.st
        /\ call' = c
        /\ out' = Seen(o)
        /\ UNCHANGED <<s, t, orig, wrote, procs>>

SkipArgs == -1 .. MaxLen + 1
LimitArgs == (-1 .. MaxLen + 1) \cup {MaxInt}
RangeArgs == -1 .. MaxLen + 2
Initials == {0, 1}

DoDistinct ==
    /\ Ready
    /\ Step(CallOf("Distinct"))

DoFilter ==
    /\ Ready
    /\ \E P \in Preds : Step([CallOf("Filter") EXCEPT !.P = P])

DoMap ==
    /\ Ready
    /\ \E f \in Mappers : Step([CallOf("Map") EXCEPT !.f = f])

DoPeek ==
    /\ Ready
    /\ Step(CallOf("Peek"))

DoSkip ==
    /\ Ready
    /\ \E n \in SkipArgs : Step([CallOf("Skip") EXCEPT !.n = n])

DoLimit ==
    /\ Ready
    /\ \E n \in LimitArgs : Step([CallOf("Limit") EXCEPT !.n = n])

DoReverse ==
    /\ Ready
    /\ Step(CallOf("Reverse"))

DoRange ==
    /\ Ready
    /\ \E n \in RangeArgs, m \in RangeArgs : Step([CallOf("Range") EXCEPT !.n = n, !.m = m])

DoSorted ==
    /\ Ready
    /\ \E c \in Lesses : Step([CallOf("Sorted") EXCEPT !.c = c])

DoAllMatch ==
    /\ Ready
    /\ \E P \in Preds : Step([CallOf("AllMatch") EXCEPT !.P = P])

DoAnyMatch ==
    /\ Ready
    /\ \E P \in Preds : Step([CallOf("AnyMatch") EXCEPT !.P = P])

DoNoneMatch ==
    /\ Ready
    /\ \E P \in Preds : Step([CallOf("NoneMatch") EXCEPT !.P = P])

DoForEach ==
    /\ Ready
    /\ Step(CallOf("ForEach"))

DoReduce ==
    /\ Ready
    /\ \E n \in Initials : Step([CallOf("Reduce") EXCEPT !.n = n])

DoCount ==
    /\ Ready
    /\ Step(CallOf("Count"))

DoFindFirst ==
    /\ Ready
    /\ Step(CallOf("FindFirst"))

DoFindLast ==
    /\ Ready
    /\ Step(CallOf("FindLast"))

DoMax ==
    /\ Ready
    /\ \E c \in Lesses : Step([CallOf("Max") EXCEPT !.c = c])

DoMin ==
    /\ Ready
    /\ \E c \in Lesses : Step([CallOf("Min") EXCEPT !.c = c])

DoToSlice ==
    /\ Ready
    /\ Step(CallOf("ToSlice"))

DoConcat ==
    /\ Ready
    /\ \E op \in ConcatOps : Step(CallOf(op))

\* the caller stores v at index i of the slice the last call returned
\* (r.ToSlice()[i] = v, or the result of s.ToSlice() itself)
Write ==
    /\ ~wrote
    /\ out.kind \in {"stream", "slice"}
    /\ r.source # Nil
    /\ \E i \in 1 .. Len(heap[r.source]), v \in Elem :
          /\ v # heap[r.source][i]
          /\ heap' = [heap EXCEPT ![r.source][i] = v]
    /\ wrote' = TRUE
    /\ UNCHANGED <<s, t, r, orig, call, out, procs>>

\* the caller lets the result of the last call go and is ready for the next call
Discard ==
    /\ ~wrote
    /\ call.op # "none"
    /\ heap' = Collect(heap, {s.source, t.source})
    /\ r' = NoStream
    /\ call' = NoCall
    /\ out' = Seen(RetVoid(<<>>, 0))
    /\ UNCHANGED <<s, t, orig, wrote, procs>>

Next ==
    \/ DoDistinct \/ DoFilter \/ DoMap \/ DoPeek \/ DoSkip \/ DoLimit
    \/ DoReverse \/ DoRange \/ DoSorted
    \/ DoAllMatch \/ DoAnyMatch \/ DoNoneMatch \/ DoForEach \/ DoReduce \/ DoCount
    \/ DoFindFirst \/ DoFindLast \/ DoMax \/ DoMin \/ DoToSlice
    \/ DoConcat
    \/ Write \/ Discard

Spec == Init /\ [][Next]_vars

\* ------------------------------------------------------------ FromRange
\* FromRange[T] at T = int8: arithmetic in T wraps to 8 bits
Int8(x) == ((x + 128) % 256) - 128

\* Go's integer division truncates toward zero
Quo(a, b) ==
    IF (a >= 0) = (b > 0) THEN (IF a >= 0 THEN a \div b ELSE (-a) \div (-b))
    ELSE -(IF a >= 0 THEN a \div (-b) ELSE (-a) \div b)

FromRange(h, start, end, step) ==
    IF end < start THEN Panic(h)
    ELSE IF step <= 0 THEN Panic(h)
    ELSE LET l == Quo(Int8(end - start), step) + 1
         IN  IF l < 0 \/ l > MaxAlloc
             THEN Panic(h)      \* make([]T, l): makeslice: len out of range
             ELSE LET m == Make(h, [i \in 1 .. l |-> Int8(start + Int8(Int8(i - 1) * step))])
                  IN  RetStream(m.h, FromSlice(m.p), 0)

\* the arguments tried: the ends of int8's range and values near them and near zero
Int8Args == {-128, -127, -3, -1, 0, 1, 2, 100, 127}

NoStreams == Start([nil |-> TRUE, data |-> <<>>], [nil |-> TRUE, data |-> <<>>])

InitFR == NoStreams /\ NoProcs

DoFromRange ==
    \E start \in Int8Args, end \in Int8Args, step \in Int8Args :
        LET o == FromRange(<<>>, start, end, step)
        IN  /\ heap' = Collect(o.h, {o.st.source})
            /\ r' = o.st
            /\ call' = [CallOf("FromRange") EXCEPT !.n = start, !.m = end, !.k = step]
            /\ out' = Seen(o)
            /\ UNCHANGED <<s, t, orig, wrote, procs>>

NextFR == DoFromRange

SpecFR == InitFR /\ [][NextFR]_vars

\* ------------------------------------------------------------ FromChannel
\* for v := range source: the loop ends when the channel is closed and drained
RangeOverEmpty(c) == c.buf = <<>>

RangeOver(c) == c.closed /\ c.buf = <<>>

InitCh ==
    /\ NoStreams
    /\ \E cap \in 0 .. MaxCap : ch = [NoChannel EXCEPT !.cap = cap]
    /\ prod = NoProducer
    /\ fc = NoFromChannel
    /\ gen = NoGenerator
    /\ gf = NoGenerate

\* s := make([]T, 0)
FcCall ==
    /\ fc.pc = "idle"
    /\ fc' = [fc EXCEPT !.pc = "range", !.s = <<>>]
    /\ UNCHANGED <<heap, s, t, r, orig, call, out, wrote, ch, prod, gen, gf>>

\* the producer sends v: into the buffer when there is room
Send ==
    /\ ~ch.closed
    /\ Len(ch.buf) < ch.cap
    /\ Len(prod.sent) < MaxLen
    /\ \E v \in Elem :
          /\ ch' = [ch EXCEPT !.buf = Append(@, v)]
          /\ prod' = [prod EXCEPT !.sent = Append(@, v)]
    /\ UNCHANGED <<heap, s, t, r, orig, call, out, wrote, fc, gen, gf>>

\* the producer sends v straight to the loop waiting in range: s = append(s, v)
SendToReceiver ==
    /\ ~ch.closed
    /\ ch.buf = <<>>
    /\ fc.pc = "range"
    /\ Len(prod.sent) < MaxLen
    /\ \E v \in Elem :
          /\ prod' = [prod EXCEPT !.sent = Append(@, v)]
          /\ fc' = [fc EXCEPT !.s = Append(@, v), !.got = Append(@, v)]
    /\ UNCHANGED <<heap, s, t, r, orig, call, out, wrote, ch, gen, gf>>

\* the producer closes the channel
Close ==
    /\ ~ch.closed
    /\ ch' = [ch EXCEPT !.closed = TRUE]
    /\ UNCHANGED <<heap, s, t, r, orig, call, out, wrote, prod, fc, gen, gf>>

\* the loop takes the next buffered value: s = append(s, v)
FcReceive ==
    /\ fc.pc = "range"
    /\ ch.buf # <<>>
    /\ ch' = [ch EXCEPT !.buf = Tail(@)]
    /\ fc' = [fc EXCEPT !.s = Append(@, Head(ch.buf)), !.got = Append(@, Head(ch.buf))]
    /\ UNCHANGED <<heap, s, t, r, orig, call, out, wrote, prod, gen, gf>>

\* the loop ends: return FromSlice(s)
FcReturn ==
    /\ fc.pc = "range"
    /\ RangeOver(ch)
    /\ LET m == Make(<<>>, fc.s)
           o == RetStream(m.h, FromSlice(m.p), 0)
       IN  /\ heap' = o.h
           /\ r' = o.st
           /\ call' = CallOf("FromChannel")
           /\ out' = Seen(o)
    /\ fc' = [fc EXCEPT !.pc = "returned"]
    /\ UNCHANGED <<s, t, orig, wrote, ch, prod, gen, gf>>

FromChannel == FcCall \/ FcReceive \/ FcReturn

NextCh == FcCall \/ Send \/ SendToReceiver \/ Close \/ FcReceive \/ FcReturn

\* the goroutine running FromChannel is scheduled whenever it can take a step;
\* nothing makes the producer send or close
SpecCh == InitCh /\ [][NextCh]_vars /\ WF_vars(FromChannel)

\* ------------------------------------------------------------ Generate
\* item, ok = next(); if ok { source = append(source, item) }
GenerateAppendAlways(source, item, ok) == Append(source, item)

GenerateAppend(source, item, ok) == IF ok THEN Append(source, item) ELSE source

\* the generators tried: one that yields the items of a script and then reports
\* the end (with any item beside the false), and one that never reports the end
InitGen ==
    /\ NoStreams
    /\ ch = NoChannel
    /\ prod = NoProducer
    /\ fc = NoFromChannel
    /\ \E left \in Seqs(MaxLen), endless \in BOOLEAN :
          gen = [NoGenerator EXCEPT !.left = left, !.endless = endless]
    /\ gf = NoGenerate

\* source := make([]T, 0); next, item, ok := generator(), zeroValue, true
GenCall ==
    /\ gf.pc = "idle"
    /\ gen' = [gen EXCEPT !.made = @ + 1]
    /\ gf' = [pc |-> "loop", source |-> <<>>, item |-> ZeroValue, ok |-> TRUE]
    /\ UNCHANGED <<heap, s, t, r, orig, call, out, wrote, ch, prod, fc>>

\* the loop condition ok holds: one run of the body, calling next()
GenNext ==
    /\ gf.pc = "loop"
    /\ gf.ok
    /\ \E item \in Elem, ok \in BOOLEAN :
          /\ IF gen.left # <<>> THEN item = Head(gen.left) /\ ok
             ELSE IF gen.endless THEN ok /\ Len(gf.source) <= MaxLen
             ELSE ~ok
          /\ gen' = [gen EXCEPT !.left = IF @ = <<>> THEN @ ELSE Tail(@),
                                !.yields = Append(@, <<item, ok>>)]
          /\ gf' = [gf EXCEPT !.item = item, !.ok = ok,
                              !.source = GenerateAppend(@, item, ok)]
    /\ UNCHANGED <<heap, s, t, r, orig, call, out, wrote, ch, prod, fc>>

\* the loop condition ok fails: return FromSlice(source)
GenReturn ==
    /\ gf.pc = "loop"
    /\ ~gf.ok
    /\ LET m == Make(<<>>, gf.source)
           o == RetStream(m.h, FromSlice(m.p), Len(gen.yields))
       IN  /\ heap' = o.h
           /\ r' = o.st
           /\ call' = CallOf("Generate")
           /\ out' = Seen(o)
    /\ gf' = [gf EXCEPT !.pc = "returned"]
    /\ UNCHANGED <<s, t, orig, wrote, ch, prod, fc, gen>>

Generate == GenCall \/ GenNext \/ GenReturn

NextGen == GenCall \/ GenNext \/ GenReturn

\* Generate runs on the caller's thread: it takes its next step whenever it has one
SpecGen == InitGen /\ [][NextGen]_vars /\ WF_vars(Generate)

\* ------------------------------------------------------------ shorthands
Returned == out.kind = "stream"
Result == Src(heap, r)          \* the elements of the returned stream
Recv == Src(heap, s)            \* the elements of the receiver now

TypeOK ==
    /\ DOMAIN heap \subseteq Addr
    /\ s.source \in DOMAIN heap \cup {Nil}
    /\ t.source \in DOMAIN heap \cup {Nil}
    /\ r.source \in DOMAIN heap \cup {Nil}
    /\ wrote \in BOOLEAN

\* ------------------------------------------------------------ reference notions
Smaller(a, b) == IF a < b THEN a ELSE b
Larger(a, b) == IF a > b THEN a ELSE b

\* the elements of q at the 0-based indices lo <= i < hi
Between(q, lo, hi) == IF hi <= lo THEN <<>> ELSE [i \in 1 .. (hi - lo) |-> q[lo + i]]

\* the 1-based indices of q that hold the first occurrence of their fingerprint
FirstOccurrences(q) ==
    {i \in 1 .. Len(q) : \A j \in 1 .. (i - 1) : hashKey(q[j]) # hashKey(q[i])}

\* the elements of q at the indices in I, in the order of q
RECURSIVE Pick(_, _, _)
Pick(q, I, i) ==
    IF i > Len(q) THEN <<>>
    ELSE IF i \in I THEN <<q[i]>> \o Pick(q, I, i + 1) ELSE Pick(q, I, i + 1)

\* ------------------------------------------------------------ C1
\* C1: every chain operation other than Peek returns a stream on a backing
\* sequence of its own, never the receiver's, so that a store through the
\* slice of the result is not visible through the receiver.
C1_FreshBacking ==
    (call.op \in ChainOps \ {"Peek"} /\ out.kind = "stream") =>
        /\ Recv # <<>> => r.source # s.source
        /\ wrote => Recv = orig.s

\* ------------------------------------------------------------ C2
\* C2: whatever chain and terminal operations and Concats have been called on s
\* (and as long as the caller has stored nothing through a returned slice), the
\* backing sequence of s, and of the other Concat argument, holds the elements
\* it was constructed with, in the same order.
C2_ReceiverUnchanged == ~wrote => (Recv = orig.s /\ Src(heap, t) = orig.t)

\* Sorted returned an order different from the receiver's.
C2_Witness ==
    /\ call.op = "Sorted" /\ out.kind = "stream" /\ ~wrote
    /\ Result # Recv
    /\ Len(Result) = Len(Recv)

\* ------------------------------------------------------------ C3
\* C3: an operation other than Limit called on the nil stream returns what the
\* same call returns on an allocated stream of length zero: the same value,
\* found flag or boolean, the same number of callback runs, a stream of the same
\* elements, and no panic.
C3_NilAsEmpty ==
    (s.source = Nil /\ ~wrote /\ call.op \in (ChainOps \cup TerminalOps \cup ConcatOps) \ {"Limit"}) =>
        LET e == Make(Collect(heap, {t.source}), <<>>)
            o == Invoke(e.h, FromSlice(e.p), t, call)
        IN  /\ out.kind # "panic"
            /\ Seen(o) = out
            /\ Src(o.h, o.st) = Result

\* Range on the nil stream with start < end: the copying loop is reached.
C3_Witness ==
    /\ s.source = Nil /\ ~wrote /\ call.op = "Range" /\ 0 <= call.n /\ call.n < call.m
    /\ out.kind = "stream" /\ Result = <<>>

\* ------------------------------------------------------------ C4
\* C4: Skip(n) with n >= 0 returns the elements at indices n..Count()-1 in order,
\* so Skip(n).Count() + min(n, Count()) = Count(); it is empty for n >= Count()
\* and has the receiver's elements for n <= 0.
C4_Skip ==
    (call.op = "Skip" /\ ~wrote) =>
        /\ out.kind = "stream"
        /\ call.n >= 0 =>
              /\ Len(Result) + Smaller(call.n, Len(Recv)) = Len(Recv)
              /\ Result = Between(Recv, call.n, Len(Recv))
        /\ call.n >= Len(Recv) => Result = <<>>
        /\ call.n <= 0 => Result = Recv

\* Skip dropped some but not all of at least three elements.
C4_Witness ==
    /\ call.op = "Skip" /\ out.kind = "stream" /\ ~wrote
    /\ call.n = 1 /\ Len(Recv) = MaxLen /\ Len(Result) = MaxLen - 1

\* ------------------------------------------------------------ C5
\* C5: Range(start, end) never panics and returns the elements at the indices i
\* with max(start,0) <= i < min(max(end,0), L), in order (none when that
\* interval is empty), for every start and end, also beyond L.
C5_Range ==
    (call.op = "Range" /\ ~wrote) =>
        /\ out.kind = "stream"
        /\ Result = Between(Recv, Larger(call.n, 0), Smaller(Larger(call.m, 0), Len(Recv)))

\* start beyond the length with end beyond start.
C5_Witness ==
    /\ call.op = "Range" /\ out.kind = "stream" /\ ~wrote
    /\ Len(Recv) > 0 /\ call.n > Len(Recv) /\ call.m > call.n
    /\ Result = <<>>

\* ------------------------------------------------------------ C6
\* C6: Limit(maxSize) on a stream with a backing sequence of length L returns
\* the first min(maxSize, L) elements when maxSize >= 0 and an empty stream when
\* maxSize < 0; on the nil stream it returns the receiver, still nil, for every
\* maxSize.
C6_Limit ==
    (call.op = "Limit" /\ ~wrote) =>
        /\ out.kind = "stream"
        /\ s.source = Nil => r.source = Nil
        /\ s.source # Nil =>
              /\ r.source # Nil
              /\ Result = IF call.n < 0 THEN <<>>
                          ELSE Between(Recv, 0, Smaller(call.n, Len(Recv)))

\* ------------------------------------------------------------ C7
\* C7: FromRange(start, end, step) with start <= end and step > 0 returns
\* floor((end-start)/step) + 1 elements, the i-th being start + i*step, each
\* within start..end, also where end-start does not fit the element type.
C7_FromRange ==
    (call.op = "FromRange" /\ call.n <= call.m /\ call.k > 0) =>
        /\ out.kind = "stream"
        /\ Len(Result) = ((call.m - call.n) \div call.k) + 1
        /\ \A i \in 1 .. Len(Result) :
              /\ Result[i] = call.n + (i - 1) * call.k
              /\ call.n <= Result[i] /\ Result[i] <= call.m

\* ------------------------------------------------------------ C8
\* C8: FromRange panics exactly when end < start or step <= 0.
C8_FromRangePanics ==
    call.op = "FromRange" => (out.kind = "panic" <=> (call.m < call.n \/ call.k <= 0))

\* ------------------------------------------------------------ C9
\* C9: Distinct returns the first occurrence of every fingerprint of the
\* receiver, each once, in the receiver's order; applying Distinct to the result
\* gives the result again.
C9_Distinct ==
    (call.op = "Distinct" /\ ~wrote) =>
        /\ out.kind = "stream"
        /\ \A i, j \in 1 .. Len(Result) : hashKey(Result[i]) = hashKey(Result[j]) => i = j
        /\ \A i \in 1 .. Len(Recv) : \E j \in 1 .. Len(Result) : hashKey(Result[j]) = hashKey(Recv[i])
        /\ Result = Pick(Recv, FirstOccurrences(Recv), 1)
        /\ LET again == Distinct(heap, r) IN Src(again.h, again.st) = Result

\* Distinct dropped a repeated element and kept at least two.
C9_Witness ==
    /\ call.op = "Distinct" /\ out.kind = "stream" /\ ~wrote
    /\ Len(Result) >= 2 /\ Len(Result) < Len(Recv)

\* ------------------------------------------------------------ C10
\* C10: Filter(p) returns exactly the elements satisfying p, in the receiver's
\* order, and AllMatch(p) is true of the result, also for the empty and the nil
\* stream.
C10_Filter ==
    (call.op = "Filter" /\ ~wrote) =>
        /\ out.kind = "stream"
        /\ Result = SelectSeq(Recv, LAMBDA e : e \in call.P)
        /\ AllMatch(heap, r, call.P).b

\* Filter kept some elements and dropped others.
C10_Witness ==
    /\ call.op = "Filter" /\ out.kind = "stream" /\ ~wrote
    /\ Len(Result) >= 1 /\ Len(Result) < Len(Recv)

\* ------------------------------------------------------------ C11
\* C11: Reverse returns a stream of the receiver's length whose element i is
\* the receiver's element Count()-1-i, and reversing the result gives the
\* receiver's elements back.
C11_Reverse ==
    (call.op = "Reverse" /\ ~wrote) =>
        /\ out.kind = "stream"
        /\ Len(Result) = Len(Recv)
        /\ \A i \in 1 .. Len(Recv) : Result[i] = Recv[Len(Recv) + 1 - i]
        /\ LET again == Reverse(heap, r) IN Src(again.h, again.st) = Recv

\* Reverse changed the order of a stream that is no palindrome.
C11_Witness ==
    /\ call.op = "Reverse" /\ out.kind = "stream" /\ ~wrote
    /\ Len(Recv) = MaxLen /\ Result # Recv

\* ------------------------------------------------------------ C12
\* the index of the first element of q that no element of q is less than
FirstBest(q, c) ==
    Least({i \in 1 .. Len(q) : \A j \in 1 .. Len(q) : ~less(c, q[j], q[i])})

\* C12: Max(less) returns (zero value, false) on an empty or nil stream; on a
\* non-empty one it returns (m, true) with m the first element, in stream
\* order, that no element is less than: a later element replaces the running
\* best only when less(candidate, best), so the first of several tied elements
\* wins.
C12_Max ==
    (call.op = "Max" /\ ~wrote) =>
        /\ out.kind = "value"
        /\ Recv = <<>> => (out.val = ZeroValue /\ ~out.found)
        /\ Recv # <<>> =>
              /\ out.found
              /\ out.val = Recv[FirstBest(Recv, call.c)]
              /\ \A i \in 1 .. Len(Recv) : ~less(call.c, Recv[i], out.val)

\* two different elements tie for the best and the best is not the first element scanned.
C12_Witness ==
    /\ call.op = "Max" /\ call.c = "half" /\ out.found /\ ~wrote
    /\ FirstBest(Recv, call.c) > 1
    /\ \E j \in 1 .. Len(Recv) :
          /\ j > FirstBest(Recv, call.c)
          /\ Recv[j] # out.val
          /\ ~less(call.c, out.val, Recv[j])

\* ------------------------------------------------------------ C13
\* the number of elements the predicate runs on when the scan stops at the first
\* element for which the predicate gives the value hit
RunsUntil(q, P, hit) ==
    LET at == {i \in 1 .. Len(q) : (q[i] \in P) = hit}
    IN  IF at = {} THEN Len(q) ELSE Least(at)

\* C13: AllMatch and AnyMatch run the predicate on the elements in order up to
\* and including the first determining one and on none after it; AllMatch is
\* true iff no element fails, AnyMatch iff some element passes, NoneMatch is the
\* negation of AnyMatch; on an empty stream AllMatch and NoneMatch are true and
\* AnyMatch is false.
C13_Match ==
    /\ (call.op = "AllMatch" /\ ~wrote) =>
          /\ out.kind = "bool"
          /\ out.b = (\A i \in 1 .. Len(Recv) : Recv[i] \in call.P)
          /\ out.calls = RunsUntil(Recv, call.P, FALSE)
          /\ Recv = <<>> => out.b
    /\ (call.op = "AnyMatch" /\ ~wrote) =>
          /\ out.kind = "bool"
          /\ out.b = (\E i \in 1 .. Len(Recv) : Recv[i] \in call.P)
          /\ out.calls = RunsUntil(Recv, call.P, TRUE)
          /\ Recv = <<>> => ~out.b
    /\ (call.op = "NoneMatch" /\ ~wrote) =>
          /\ out.kind = "bool"
          /\ out.b = ~AnyMatch(heap, s, call.P).b
          /\ out.calls = RunsUntil(Recv, call.P, TRUE)
          /\ Recv = <<>> => out.b

\* AllMatch stopped at a failing element with elements left unvisited.
C13_Witness ==
    /\ call.op = "AllMatch" /\ out.kind = "bool" /\ ~wrote
    /\ ~out.b /\ out.calls >= 2 /\ out.calls < Len(Recv)

\* ------------------------------------------------------------ C16
\* C16: Max(less) and Min(less) return the same (value, found) pair for every
\* stream and comparator: both apply the same replacement rule.
C16_MaxIsMin ==
    /\ (call.op = "Max" /\ ~wrote) => Seen(Min(heap, s, call.c)) = out
    /\ (call.op = "Min" /\ ~wrote) => Seen(Max(heap, s, call.c)) = out

\* Min returned an element other than the first of a stream.
C16_Witness ==
    /\ call.op = "Min" /\ out.found /\ ~wrote
    /\ Len(Recv) >= 2 /\ out.val # Recv[1]
    /\ Seen(Max(heap, s, call.c)) = out

\* ------------------------------------------------------------ C14
\* C14: FromChannel returns only once the channel is closed and drained, the
\* stream it returns holds the values received, each once, in receive order
\* (all the values the producer sent), and once the channel is closed the call
\* does return; while the producer has not closed it, the call has not returned.
C14_FromChannel ==
    /\ [](fc.pc = "returned" =>
             /\ ch.closed /\ ch.buf = <<>>
             /\ out.kind = "stream"
             /\ Result = fc.got
             /\ fc.got = prod.sent)
    /\ [](~ch.closed => fc.pc # "returned")
    /\ (ch.closed ~> fc.pc = "returned")

\* FromChannel returned a stream of all the values of a producer that sent several.
C14_Witness ==
    /\ fc.pc = "returned" /\ out.kind = "stream"
    /\ Len(Result) = MaxLen /\ Result = prod.sent

\* ------------------------------------------------------------ C15
\* the items of the yields before the first one with hasMore false
RECURSIVE YieldedBeforeEnd(_)
YieldedBeforeEnd(ys) ==
    IF ys = <<>> \/ ~Head(ys)[2] THEN <<>>
    ELSE <<Head(ys)[1]>> \o YieldedBeforeEnd(Tail(ys))

EndYielded == \E i \in 1 .. Len(gen.yields) : ~gen.yields[i][2]

\* C15: Generate calls the factory once and then the pull function repeatedly;
\* the pull function is never called again after it yielded hasMore false; the
\* stream returned holds the items yielded with hasMore true before that, in
\* order, without the item that came with false; the call returns if and only
\* if the pull function comes to yield false.
C15_Generate ==
    /\ [](gen.made = IF gf.pc = "idle" THEN 0 ELSE 1)
    /\ [](\A i \in 1 .. Len(gen.yields) : ~gen.yields[i][2] => i = Len(gen.yields))
    /\ [](gf.pc = "returned" =>
             /\ EndYielded
             /\ out.kind = "stream"
             /\ Result = YieldedBeforeEnd(gen.yields)
             /\ Len(Result) = Len(gen.yields) - 1)
    /\ [](gen.endless => gf.pc # "returned")
    /\ (EndYielded ~> gf.pc = "returned")
    /\ (~gen.endless ~> gf.pc = "returned")

\* Generate returned the items of a generator that yielded several before its end.
C15_Witness ==
    /\ gf.pc = "returned" /\ out.kind = "stream"
    /\ Len(Result) = MaxLen /\ Len(gen.yields) = MaxLen + 1

====
